---- MODULE Spec2Model ----
(***************************************************************************)
(* Model of polykit's renderers: polykit/renderers/viewers.py              *)
(* (chromosome_viewer, rasterize, voxels_to_pixels_RGB) and                *)
(* polykit/renderers/backends.py (Fresnel._fresnel).                       *)
(*                                                                         *)
(* Every function is one action: the call is made in a state with          *)
(* pc = "call" and the action computes the whole body, leaving the value    *)
(* returned or the exception raised in ret.  Real numbers are exact         *)
(* rationals held as integer numerators over a common denominator; the      *)
(* rounding of IEEE doubles is not modelled.                                *)
(***************************************************************************)
EXTENDS Integers, Sequences, FiniteSets, TLC

VARIABLES
    pc,             \* "call" before the function body runs, "done" after it
    fn,             \* the function under call
    args,           \* its arguments, by parameter name
    locals,         \* the locals of the body that the caller can observe
    ret,            \* [raised, value]: the exception raised or the value returned
    cmap_registry,  \* matplotlib's process-wide colormap registry: name -> colours
    rcParams,       \* matplotlib's process-wide rcParams["image.cmap"]
    ncalls          \* number of chromosome_viewer calls made in this process

vars == <<pc, fn, args, locals, ret, cmap_registry, rcParams, ncalls>>

\* Python's None for an optional number: <<>> is None, <<v>> is the number v
None == <<>>
Some(v) == <<v>>

NoError == "no error"
NoValue == [dtype |-> "none"]
NoLocals == [unset |-> TRUE]
NoRet == [raised |-> NoError, value |-> NoValue]

Raise(exc) == [raised |-> exc, value |-> NoValue]
Return(v) == [raised |-> NoError, value |-> v]

(***************************************************************************)
(* numpy helpers                                                           *)
(***************************************************************************)
SetMax(S) == CHOOSE m \in S : \A x \in S : x <= m
SetMin(S) == CHOOSE m \in S : \A x \in S : m <= x

RECURSIVE SumOver(_, _)
SumOver(f, S) ==
    IF S = {} THEN 0
    ELSE LET i == CHOOSE j \in S : TRUE IN f[i] + SumOver(f, S \ {i})

\* a mod n for any integer a and n > 0
Wrap(a, n) == ((a % n) + n) % n

(***************************************************************************)
(* rasterize (viewers.py 71-120)                                           *)
(*                                                                         *)
(* Coordinates are held doubled (x2 = 2*x) so that the box limits          *)
(* -box_size/2 and +box_size/2 are the integers -box_size and +box_size.   *)
(* Bin edges are numerators over the common denominator BinDen(n).         *)
(***************************************************************************)

\* n_voxels = int(box_size / (resolution/length_unit))
NVoxels(box_size, resolution, length_unit) ==
    (box_size * length_unit) \div resolution

BinDen(n) == IF n > 0 THEN 2 * n ELSE 2

\* np.linspace(-box_size/2., box_size/2., num=n+1): edge i is
\* -box_size/2 + i*box_size/n, here times BinDen(n)
Linspace(box_size, n) ==
    IF n = 0 THEN << -box_size >>
    ELSE [i \in 1..(n + 1) |-> 2 * (i - 1) * box_size - n * box_size]

\* np.digitize(x, bins) with increasing bins and right=False: the index i with
\* bins[i-1] <= x < bins[i], i.e. the number of edges that are <= x
Digitize(x2, bins, n) ==
    Cardinality({i \in 1..Len(bins) : bins[i] <= x2 * (BinDen(n) \div 2)})

\* digitized_x + digitized_y*n_voxels + digitized_z*n_voxels**2
\* (mutant: the x and z strides exchanged)
FlatIndexSwapped(dx, dy, dz, n) == dz + dy * n + dx * n * n

FlatIndex(dx, dy, dz, n) == dx + dy * n + dz * n * n

Digitized(positions, box_size, n) ==
    LET bins == Linspace(box_size, n)
    IN  [p \in 1..Len(positions) |->
            FlatIndex(Digitize(positions[p][1], bins, n) - 1,
                      Digitize(positions[p][2], bins, n) - 1,
                      Digitize(positions[p][3], bins, n) - 1, n)]

\* np.bincount(digitized, minlength): ValueError on a negative entry, else an
\* int64 array of length max(minlength, max(digitized)+1)
BincountLen(digitized, minlength) ==
    LET top == SetMax({digitized[p] : p \in DOMAIN digitized} \cup {-1}) + 1
    IN  IF top > minlength THEN top ELSE minlength

Bincount(digitized, minlength) ==
    [k \in 0..(BincountLen(digitized, minlength) - 1) |->
        Cardinality({p \in DOMAIN digitized : digitized[p] = k})]

\* An n x n x n array in C order: element [a, b, c] is data[a*n*n + b*n + c];
\* the value of an element is data[k] / den
Array3(dtype, n, data, den) == [dtype |-> dtype, n |-> n, data |-> data, den |-> den]

At(arr, a, b, c) == arr.data[a * arr.n * arr.n + b * arr.n + c]

ArrayMax(arr) == SetMax({arr.data[k] : k \in DOMAIN arr.data})

\* 100 * exp(-t2/2) rounded, for t2 = 0, 1, 2, ...
ExpTable == <<100, 61, 37, 22, 14, 8, 5, 3, 2, 1>>
ExpHalf(t2) == IF t2 < Len(ExpTable) THEN ExpTable[t2 + 1] ELSE 0

\* scipy's gaussian kernel for sigma = gaussian_width/resolution: radius
\* int(4*sigma + 0.5), weight exp(-x*x/(2*sigma*sigma)) at offset x
KernelRadius(gaussian_width, resolution) ==
    (8 * gaussian_width + resolution) \div (2 * resolution)

KernelWeight(gaussian_width, resolution, x) ==
    ExpHalf((x * x * resolution * resolution) \div (gaussian_width * gaussian_width))

KernelSum(gaussian_width, resolution) ==
    LET lw == KernelRadius(gaussian_width, resolution)
    IN  SumOver([x \in (-lw)..lw |->
                    KernelWeight(gaussian_width, resolution, x)], (-lw)..lw)

\* one pass of the filter along the axis of stride `stride`, mode='wrap'
FilterAxis(data, n, stride, gaussian_width, resolution) ==
    LET lw == KernelRadius(gaussian_width, resolution)
    IN  [k \in DOMAIN data |->
            LET i == (k \div stride) % n
            IN  SumOver([x \in (-lw)..lw |->
                            KernelWeight(gaussian_width, resolution, x)
                            * data[k + (Wrap(i + x, n) - i) * stride]],
                        (-lw)..lw)]

\* gaussian_filter(raster/raster.max(), sigma=gaussian_width/resolution, mode='wrap')
GaussianFilter(arr, gaussian_width, resolution) ==
    LET n  == arr.n
        w  == KernelSum(gaussian_width, resolution)
        p0 == FilterAxis(arr.data, n, n * n, gaussian_width, resolution)
        p1 == FilterAxis(p0, n, n, gaussian_width, resolution)
        p2 == FilterAxis(p1, n, 1, gaussian_width, resolution)
    IN  Array3("float64", n, p2, arr.den * w * w * w)

\* raster /= raster.max(): in-place true division; numpy cannot cast the float64
\* quotient back into an int64 array and raises UFuncTypeError
NormalizeInPlace(raster) ==
    IF raster.dtype = "int64" THEN Raise("UFuncTypeError")
    ELSE Return(Array3("float64", raster.n, raster.data, ArrayMax(raster)))

rasterize(positions, box_size, resolution, length_unit, gaussian_width, normalize) ==
    LET n_voxels  == NVoxels(box_size, resolution, length_unit)
        digitized == Digitized(positions, box_size, n_voxels)
        size      == n_voxels * n_voxels * n_voxels
    IN  IF \E p \in DOMAIN digitized : digitized[p] < 0
        THEN Raise("ValueError")                      \* np.bincount
        ELSE IF BincountLen(digitized, size) # size
        THEN Raise("ValueError")                      \* bincounts.reshape
        ELSE
            LET counts == Array3("int64", n_voxels, Bincount(digitized, size), 1)
                raster == IF gaussian_width > 0
                          THEN GaussianFilter(
                                   Array3("float64", n_voxels, counts.data,
                                          ArrayMax(counts)),
                                   gaussian_width, resolution)
                          ELSE counts
            IN  IF normalize THEN NormalizeInPlace(raster) ELSE Return(raster)

(***************************************************************************)
(* Calls of rasterize                                                      *)
(***************************************************************************)
MaxParticles == 2

BoxSizes == {2, 3}
Resolutions == {2, 3}
LengthUnits == {1, 2}
GaussianWidths == {-1, 0, 1}

\* doubled coordinates wrapped into the documented range
\* [-box_size/2, +box_size/2]: the two limits and the centre
Coords(box_size) == {-box_size, 0, box_size}
Points(box_size) == Coords(box_size) \X Coords(box_size) \X Coords(box_size)

PointRank(pt, box_size) ==
    LET w == 2 * box_size + 1
    IN  ((pt[1] + box_size) * w + (pt[2] + box_size)) * w + (pt[3] + box_size)

\* the raster does not depend on the order of the particles: one array per
\* multiset of points
PositionArrays(box_size) ==
    UNION {{s \in [1..k -> Points(box_size)] :
                \A i \in 1..(k - 1) :
                    PointRank(s[i], box_size) <= PointRank(s[i + 1], box_size)}
           : k \in 1..MaxParticles}

NoRegistry == [name \in {} |-> <<>>]

InitRasterize ==
    /\ pc = "call"
    /\ fn = "rasterize"
    /\ \E b \in BoxSizes, r \in Resolutions, u \in LengthUnits :
       /\ NVoxels(b, r, u) >= 1
       /\ \E ps \in PositionArrays(b), g \in GaussianWidths, nm \in BOOLEAN :
             args = [positions |-> ps, box_size |-> b, resolution |-> r,
                     length_unit |-> u, gaussian_width |-> g, normalize |-> nm]
    /\ locals = NoLocals
    /\ ret = NoRet
    /\ cmap_registry = NoRegistry
    /\ rcParams = "viridis"
    /\ ncalls = 0

Rasterize ==
    /\ pc = "call"
    /\ fn = "rasterize"
    /\ ret' = rasterize(args.positions, args.box_size, args.resolution,
                        args.length_unit, args.gaussian_width, args.normalize)
    /\ locals' = [n_voxels |-> NVoxels(args.box_size, args.resolution,
                                       args.length_unit),
                  digitized |-> Digitized(args.positions, args.box_size,
                                   NVoxels(args.box_size, args.resolution,
                                           args.length_unit))]
    /\ pc' = "done"
    /\ UNCHANGED <<fn, args, cmap_registry, rcParams, ncalls>>

SpecRasterize == InitRasterize /\ [][Rasterize]_vars

(***************************************************************************)
(* Claims about rasterize                                                  *)
(***************************************************************************)
RasterizeDone == pc = "done" /\ fn = "rasterize"

\* every coordinate in [-box_size/2, +box_size/2]
InClosedRange ==
    \A p \in DOMAIN args.positions : \A c \in 1..3 :
        -args.box_size <= args.positions[p][c] /\ args.positions[p][c] <= args.box_size

\* every coordinate in [-box_size/2, +box_size/2)
InHalfOpenRange ==
    \A p \in DOMAIN args.positions : \A c \in 1..3 :
        -args.box_size <= args.positions[p][c] /\ args.positions[p][c] < args.box_size

\* the 0-based index of the one of n equal-width intervals spanning the box that
\* holds x2/2: 2*i*box_size <= n*(x2 + box_size) < 2*(i+1)*box_size; the upper
\* limit of the box belongs to the last interval
BinOf(x2, box_size, n) ==
    IF x2 = box_size THEN n - 1
    ELSE CHOOSE i \in 0..(n - 1) :
            /\ 2 * i * box_size <= n * (x2 + box_size)
            /\ n * (x2 + box_size) < 2 * (i + 1) * box_size

ParticlesIn(ix, iy, iz) ==
    LET n == NVoxels(args.box_size, args.resolution, args.length_unit)
    IN  Cardinality({p \in DOMAIN args.positions :
            /\ BinOf(args.positions[p][1], args.box_size, n) = ix
            /\ BinOf(args.positions[p][2], args.box_size, n) = iy
            /\ BinOf(args.positions[p][3], args.box_size, n) = iz})

RawRasterIsBinCounts ==
    LET n == NVoxels(args.box_size, args.resolution, args.length_unit)
    IN  /\ ret.raised = NoError
        /\ ret.value.dtype = "int64"
        /\ ret.value.den = 1
        /\ ret.value.n = n
        /\ DOMAIN ret.value.data = 0..(n * n * n - 1)
        /\ SumOver(ret.value.data, DOMAIN ret.value.data) = Len(args.positions)
        /\ \A iz \in 0..(n - 1) : \A iy \in 0..(n - 1) : \A ix \in 0..(n - 1) :
               At(ret.value, iz, iy, ix) = ParticlesIn(ix, iy, iz)

\* C1: for positions whose coordinates all lie in the closed range
\* [-box_size/2, +box_size/2], rasterize (normalize left False) returns without
\* error an M x M x M array, M = int(box_size/(resolution/length_unit)), and (in
\* the raw raster) every particle is counted in the voxel of its own bins,
\* none dropped, moved to another row or plane, or put past the last voxel.
C1_ClosedRangeIsRasterized ==
    (RasterizeDone /\ InClosedRange /\ ~args.normalize) =>
        /\ ret.raised = NoError
        /\ ret.value.n = NVoxels(args.box_size, args.resolution, args.length_unit)
        /\ (args.gaussian_width <= 0 /\ ~args.normalize) => RawRasterIsBinCounts

\* C2: with normalize=True and at least one particle (all inside the box), for
\* every gaussian_width rasterize returns a raster whose maximum is exactly 1.
C2_NormalizeScalesMaxToOne ==
    (RasterizeDone /\ args.normalize /\ Len(args.positions) >= 1
        /\ InHalfOpenRange) =>
        /\ ret.raised = NoError
        /\ ret.value.dtype = "float64"
        /\ ArrayMax(ret.value) = ret.value.den

\* C5: with gaussian_width <= 0 and normalize=False, for positions in
\* [-box_size/2, +box_size/2), the int raster holds each particle exactly once:
\* the voxels sum to N and raster[iz, iy, ix] is the number of particles whose
\* x, y, z bin indices are ix, iy, iz.
C5_RawRasterCountsEachParticleOnce ==
    (RasterizeDone /\ args.gaussian_width <= 0 /\ ~args.normalize
        /\ InHalfOpenRange) => RawRasterIsBinCounts

\* two particles share the voxel [iz=0, iy=0, ix=1] of a grid of at least 2^3
C5_Witness ==
    /\ RasterizeDone /\ args.gaussian_width <= 0 /\ ~args.normalize
    /\ InHalfOpenRange
    /\ ret.raised = NoError
    /\ ret.value.n >= 2
    /\ Len(args.positions) = 2
    /\ At(ret.value, 0, 0, 1) = 2

(***************************************************************************)
(* voxels_to_pixels_RGB (viewers.py 123-167)                               *)
(*                                                                         *)
(* A colormap is a ListedColormap: its sequence of RGBA colours.  An M x M  *)
(* image is held in C order: pixel [i, j] is data[i*M + j].                 *)
(***************************************************************************)

\* the voxels that raster.max(axis) / raster.sum(axis) reduces into pixel [i, j]
\* (mutant: axes 0 and 2 exchanged)
AxisLineTransposed(raster, axis, i, j) ==
    [t \in 0..(raster.n - 1) |->
        IF axis = 2 THEN At(raster, t, i, j)
        ELSE IF axis = 1 THEN At(raster, i, t, j)
        ELSE At(raster, i, j, t)]

AxisLine(raster, axis, i, j) ==
    [t \in 0..(raster.n - 1) |->
        IF axis = 0 THEN At(raster, t, i, j)
        ELSE IF axis = 1 THEN At(raster, i, t, j)
        ELSE At(raster, i, j, t)]

\* raster.max(axis=axis)
ProjectMax(raster, axis) ==
    [k \in 0..(raster.n * raster.n - 1) |->
        LET line == AxisLine(raster, axis, k \div raster.n, k % raster.n)
        IN  SetMax({line[t] : t \in DOMAIN line})]

\* raster.sum(axis=axis)
ProjectSum(raster, axis) ==
    [k \in 0..(raster.n * raster.n - 1) |->
        LET line == AxisLine(raster, axis, k \div raster.n, k % raster.n)
        IN  SumOver(line, DOMAIN line)]

\* vmin = raster_2D.min() if vmin is None else vmin
\* (mutant: `vmin or raster_2D.min()`, which also replaces an explicit 0)
DefaultMinFalsy(vmin, raster_2D) ==
    IF vmin = None \/ vmin = Some(0)
    THEN SetMin({raster_2D[k] : k \in DOMAIN raster_2D}) ELSE vmin[1]

DefaultMin(vmin, raster_2D) ==
    IF vmin = None THEN SetMin({raster_2D[k] : k \in DOMAIN raster_2D}) ELSE vmin[1]

\* vmax = raster_2D.max() if vmax is None else vmax
DefaultMax(vmax, raster_2D) ==
    IF vmax = None THEN SetMax({raster_2D[k] : k \in DOMAIN raster_2D}) ELSE vmax[1]

\* Colormap.__call__(Normalize(vmin, vmax)(x)) for vmin <= vmax: the 0-based
\* index into the colours.  Normalize gives 0 when vmin = vmax and
\* (x - vmin)/(vmax - vmin) otherwise; the colormap multiplies by its N colours,
\* sends negatives to the first colour, N and above to the last, and truncates
CmapIndex(cmap, x, vmin, vmax) ==
    LET N == Len(cmap)
    IN  IF vmin = vmax THEN 0
        ELSE IF x < vmin THEN 0
        ELSE IF (x - vmin) * N >= N * (vmax - vmin) THEN N - 1
        ELSE ((x - vmin) * N) \div (vmax - vmin)

\* ScalarMappable(norm, cmap).to_rgba(raster_2D)
ToRGBA(cmap, raster_2D, vmin, vmax) ==
    [k \in DOMAIN raster_2D |-> cmap[CmapIndex(cmap, raster_2D[k], vmin, vmax) + 1]]

Image(n, channels, data) == [dtype |-> "float64", shape |-> <<n, n, channels>>, data |-> data]

\* im[..., :3]
DropAlpha(n, im) == Image(n, 3, [k \in DOMAIN im |-> SubSeq(im[k], 1, 3)])

\* the body from the defaults of vmin, vmax on (lines 159-167)
ColorPixels(raster, cmap, vmin, vmax, raster_2D) ==
    LET lo == DefaultMin(vmin, raster_2D)
        hi == DefaultMax(vmax, raster_2D)
        lc == [raster_2D |-> raster_2D, vmin |-> lo, vmax |-> hi]
    IN  IF lo > hi
        THEN [locals |-> lc, ret |-> Raise("ValueError")]   \* Normalize.__call__
        ELSE [locals |-> lc,
              ret |-> Return(DropAlpha(raster.n, ToRGBA(cmap, raster_2D, lo, hi)))]

\* (mutant: an unrecognised mode falls back to the maximum projection)
voxels_to_pixels_RGB_lenient(raster, cmap, vmin, vmax, mode, axis) ==
    IF mode = "sum"
    THEN ColorPixels(raster, cmap, vmin, vmax, ProjectSum(raster, axis))
    ELSE ColorPixels(raster, cmap, vmin, vmax, ProjectMax(raster, axis))

\* the whole call: the locals assigned and the value returned or error raised
voxels_to_pixels_RGB(raster, cmap, vmin, vmax, mode, axis) ==
    IF mode = "max"
    THEN ColorPixels(raster, cmap, vmin, vmax, ProjectMax(raster, axis))
    ELSE IF mode = "sum"
    THEN ColorPixels(raster, cmap, vmin, vmax, ProjectSum(raster, axis))
    ELSE [locals |-> NoLocals, ret |-> Raise("RuntimeError")]

(***************************************************************************)
(* Calls of voxels_to_pixels_RGB                                           *)
(***************************************************************************)
MaxLit == 2

Sides == {1, 2}
VoxelValues == {1, 2}
Modes == {"max", "sum", "min", "mean"}
Axes == {0, 1, 2}
RangeLimits == {None, Some(0), Some(1), Some(2)}
Cmaps == { << <<100, 0, 0, 100>>, <<0, 100, 0, 100>> >>,
           << <<0, 0, 0, 100>>, <<50, 50, 50, 80>>, <<100, 100, 100, 60>> >> }

\* rasters of side n with at most MaxLit voxels that are not 0
Rasters(n) ==
    {Array3("float64", n, d, 1) :
        d \in {f \in [0..(n * n * n - 1) -> VoxelValues \cup {0}] :
                  Cardinality({k \in DOMAIN f : f[k] # 0}) <= MaxLit}}

InitPixels ==
    /\ pc = "call"
    /\ fn = "voxels_to_pixels_RGB"
    /\ \E n \in Sides : \E r \in Rasters(n), cm \in Cmaps :
       \E lo \in RangeLimits, hi \in RangeLimits, m \in Modes, a \in Axes :
          args = [raster |-> r, cmap |-> cm, vmin |-> lo, vmax |-> hi,
                  mode |-> m, axis |-> a]
    /\ locals = NoLocals
    /\ ret = NoRet
    /\ cmap_registry = NoRegistry
    /\ rcParams = "viridis"
    /\ ncalls = 0

VoxelsToPixels ==
    /\ pc = "call"
    /\ fn = "voxels_to_pixels_RGB"
    /\ LET frame == voxels_to_pixels_RGB(args.raster, args.cmap, args.vmin,
                                         args.vmax, args.mode, args.axis)
       IN  /\ locals' = frame.locals
           /\ ret' = frame.ret
    /\ pc' = "done"
    /\ UNCHANGED <<fn, args, cmap_registry, rcParams, ncalls>>

SpecPixels == InitPixels /\ [][VoxelsToPixels]_vars

(***************************************************************************)
(* Claims about voxels_to_pixels_RGB                                       *)
(***************************************************************************)
PixelsCall == pc = "call" /\ fn = "voxels_to_pixels_RGB"
PixelsDone == pc = "done" /\ fn = "voxels_to_pixels_RGB"

\* C3: every mode other than 'max' and 'sum' raises RuntimeError before any
\* local (projection, vmin, vmax, norm) is assigned and with the input raster as
\* it was; 'max' and 'sum' never raise RuntimeError.
C3_UnsupportedModeRaises ==
    [][PixelsCall =>
        IF args.mode \notin {"max", "sum"}
        THEN /\ ret'.raised = "RuntimeError"
             /\ locals' = NoLocals
             /\ args'.raster = args.raster
        ELSE ret'.raised # "RuntimeError"]_vars

C3_Witness ==
    PixelsDone /\ args.mode = "min" /\ ret.raised = "RuntimeError"

\* the index triples of the voxels that project onto pixel [i, j]: those that
\* give <<i, j>> once the coordinate of the projection axis is removed
Ray(M, axis, i, j) ==
    {idx \in (0..(M - 1)) \X (0..(M - 1)) \X (0..(M - 1)) :
        <<i, j>> = IF axis = 0 THEN <<idx[2], idx[3]>>
                   ELSE IF axis = 1 THEN <<idx[1], idx[3]>>
                   ELSE <<idx[1], idx[2]>>}

RayValues(raster, axis, i, j) ==
    [idx \in Ray(raster.n, axis, i, j) |-> At(raster, idx[1], idx[2], idx[3])]

\* C6: in mode 'max' the scalar of pixel [i, j] is the maximum, in mode 'sum'
\* the sum, of the M voxels along the given axis; the value returned is an
\* M x M x 3 array whose pixels are colours of the colormap without their
\* alpha; the arguments are left unchanged.  (The one call that returns
\* nothing is Normalize's ValueError for vmin > vmax.)
C6_ProjectsAlongAxis ==
    [][(PixelsCall /\ args.mode \in {"max", "sum"} /\ args.axis \in {0, 1, 2}) =>
        LET M == args.raster.n
        IN  /\ args' = args
            /\ DOMAIN locals'.raster_2D = 0..(M * M - 1)
            /\ \A i \in 0..(M - 1) : \A j \in 0..(M - 1) :
                  LET v == RayValues(args.raster, args.axis, i, j)
                  IN  /\ Cardinality(DOMAIN v) = M
                      /\ locals'.raster_2D[i * M + j] =
                            IF args.mode = "max"
                            THEN SetMax({v[idx] : idx \in DOMAIN v})
                            ELSE SumOver(v, DOMAIN v)
            /\ IF locals'.vmin <= locals'.vmax
               THEN /\ ret'.raised = NoError
                    /\ ret'.value.shape = <<M, M, 3>>
                    /\ DOMAIN ret'.value.data = 0..(M * M - 1)
                    /\ \A k \in 0..(M * M - 1) :
                          \E c \in 1..Len(args.cmap) :
                             ret'.value.data[k] =
                                <<args.cmap[c][1], args.cmap[c][2], args.cmap[c][3]>>
               ELSE ret'.raised = "ValueError"]_vars

\* voxels 1 and 2 lie on one ray along axis 0 and sum to 3 in pixel [0, 1]
C6_Witness ==
    /\ PixelsDone /\ args.mode = "sum" /\ args.axis = 0
    /\ args.raster.n = 2
    /\ At(args.raster, 0, 0, 1) = 1 /\ At(args.raster, 1, 0, 1) = 2
    /\ ret.raised = NoError
    /\ locals.raster_2D[1] = 3

\* C7: vmin None becomes the minimum of the projected image, vmax None its
\* maximum, each on its own; an explicit vmin or vmax, 0 included, is the
\* bound the normalization gets.
C7_DefaultsAreDataRange ==
    (PixelsDone /\ args.mode \in {"max", "sum"}) =>
        LET data == {locals.raster_2D[k] : k \in DOMAIN locals.raster_2D}
        IN  /\ locals.vmin = IF args.vmin = None THEN SetMin(data) ELSE args.vmin[1]
            /\ locals.vmax = IF args.vmax = None THEN SetMax(data) ELSE args.vmax[1]

\* an explicit vmin of 0 below the data's minimum, vmax left to the data
C7_Witness ==
    /\ PixelsDone /\ args.mode \in {"max", "sum"}
    /\ args.vmin = Some(0) /\ args.vmax = None
    /\ \A k \in DOMAIN locals.raster_2D : locals.raster_2D[k] > 0
    /\ locals.vmin = 0
    /\ ret.raised = NoError

(***************************************************************************)
(* Fresnel._fresnel (backends.py 85-177)                                   *)
(*                                                                         *)
(* Monomers are indexed from 0 as in the bonds array; Python sequences are  *)
(* 1-based here, so monomer m is element m + 1.  A colour is an sRGB triple *)
(* in percent.                                                             *)
(***************************************************************************)

\* fl.color.linear on one channel: sRGB to linear, c/12.92 up to 4.045 percent
\* and ((c + 5.5)/105.5)^2.4 above, tabulated at the channel values in use
LinearChannel(c) ==
    CASE c = 0 -> 0
      [] c = 50 -> 21
      [] c = 100 -> 100

\* fl.color.linear(colors)
Linear(colors) ==
    [k \in 1..Len(colors) |->
        [ch \in 1..Len(colors[k]) |-> LinearChannel(colors[k][ch])]]

\* polymer_mask = np.ones(N, dtype=bool); polymer_mask[bonds] = False
PolymerMask(N, bonds) ==
    [m \in 0..(N - 1) |-> \A b \in 1..Len(bonds) : bonds[b][1] # m /\ bonds[b][2] # m]

\* a[mask] for a boolean mask: the elements where the mask is True, in order
RECURSIVE Take(_, _, _)
Take(a, mask, m) ==
    IF m >= Len(a) THEN <<>>
    ELSE (IF mask[m] THEN <<a[m + 1]>> ELSE <<>>) \o Take(a, mask, m + 1)

NoSpheres == [N |-> 0, radius |-> <<>>, position |-> <<>>, color |-> <<>>]

_fresnel(positions, bonds, colors, radii) ==
    LET N == Len(positions)
        M == Len(bonds)
    IN  IF \E b \in 1..M : \E e \in 1..2 : bonds[b][e] < 0 \/ bonds[b][e] >= N
        THEN Raise("IndexError")                      \* positions[bonds]
        ELSE IF \E b \in 1..M : \E e \in 1..2 : bonds[b][e] >= Len(radii)
        THEN Raise("IndexError")                      \* radii[bonds]
        ELSE
        LET points == [b \in 1..M |-> <<positions[bonds[b][1] + 1],
                                         positions[bonds[b][2] + 1]>>]
            radius == [b \in 1..M |-> SetMin({radii[bonds[b][1] + 1],
                                               radii[bonds[b][2] + 1]})]
            corrected_colors == Linear(colors)
            polymer_mask == PolymerMask(N, bonds)
            num_unbound_atoms == Cardinality({m \in 0..(N - 1) : polymer_mask[m]})
        IN  IF Len(corrected_colors) # N /\ Len(corrected_colors) # M
            THEN Raise("ValueError")
            ELSE
            LET color == IF Len(corrected_colors) = N
                         THEN [b \in 1..M |-> <<corrected_colors[bonds[b][1] + 1],
                                                corrected_colors[bonds[b][2] + 1]>>]
                         ELSE [b \in 1..M |-> <<corrected_colors[b],
                                                corrected_colors[b]>>]
                cylinders == [N |-> M, points |-> points, radius |-> radius,
                              color |-> color]
            IN  IF num_unbound_atoms = 0
                THEN Return([dtype |-> "scene", cylinders |-> cylinders,
                             spheres |-> NoSpheres])
                ELSE IF Len(radii) # N
                THEN Raise("IndexError")              \* radii[polymer_mask]
                ELSE IF Len(corrected_colors) # N
                THEN Raise("IndexError")              \* corrected_colors[polymer_mask]
                ELSE Return([dtype |-> "scene", cylinders |-> cylinders,
                             spheres |->
                                [N |-> num_unbound_atoms,
                                 radius |-> Take(radii, polymer_mask, 0),
                                 position |-> Take(positions, polymer_mask, 0),
                                 color |-> Take(corrected_colors, polymer_mask, 0)]])

(***************************************************************************)
(* Calls of Fresnel._fresnel                                               *)
(***************************************************************************)
MaxMonomers == 3
MaxBonds == 2

Palette == {<<100, 0, 0>>, <<50, 50, 100>>}
Radii == {1, 2}

\* monomers on a line, one unit apart
ChainPositions(N) == [m \in 1..N |-> <<m - 1, 0, 0>>]

BondArrays(N) ==
    UNION {[1..M -> {b \in (0..(N - 1)) \X (0..(N - 1)) : b[1] < b[2]}]
           : M \in 1..MaxBonds}

ColorArrays == UNION {[1..K -> Palette] : K \in 0..(MaxMonomers + 1)}

InitFresnel ==
    /\ pc = "call"
    /\ fn = "_fresnel"
    /\ \E N \in 2..MaxMonomers :
       \E bs \in BondArrays(N), cs \in ColorArrays, rs \in [1..N -> Radii] :
          args = [positions |-> ChainPositions(N), bonds |-> bs, colors |-> cs,
                  radii |-> rs]
    /\ locals = NoLocals
    /\ ret = NoRet
    /\ cmap_registry = NoRegistry
    /\ rcParams = "viridis"
    /\ ncalls = 0

Fresnel ==
    /\ pc = "call"
    /\ fn = "_fresnel"
    /\ ret' = _fresnel(args.positions, args.bonds, args.colors, args.radii)
    /\ pc' = "done"
    /\ UNCHANGED <<fn, args, locals, cmap_registry, rcParams, ncalls>>

SpecFresnel == InitFresnel /\ [][Fresnel]_vars

(***************************************************************************)
(* Claims about Fresnel._fresnel                                           *)
(***************************************************************************)
\* C4: a colors array with one row per monomer or one row per bond is accepted,
\* whether or not some monomers belong to no bond: the scene is returned with
\* the (linearised) colours of each bond's two monomers, or of each bond; every
\* other row count raises ValueError and nothing else.
C4_ColorsPerMonomerOrPerBond ==
    (pc = "done" /\ fn = "_fresnel") =>
        LET N == Len(args.positions)
            M == Len(args.bonds)
            K == Len(args.colors)
            lin == Linear(args.colors)
        IN  IF K = N
            THEN /\ ret.raised = NoError
                 /\ \A b \in 1..M : \A e \in 1..2 :
                       ret.value.cylinders.color[b][e] = lin[args.bonds[b][e] + 1]
            ELSE IF K = M
            THEN /\ ret.raised = NoError
                 /\ \A b \in 1..M : \A e \in 1..2 :
                       ret.value.cylinders.color[b][e] = lin[b]
            ELSE ret.raised = "ValueError"

(***************************************************************************)
(* chromosome_viewer (viewers.py 12-68)                                    *)
(*                                                                         *)
(* matplotlib keeps two things for the life of the process: the registry   *)
(* of named colormaps and rcParams["image.cmap"], the name of the default   *)
(* colormap.  register_cmap raises ValueError for a name that is already    *)
(* registered; set_cmap(cmap) stores cmap.name in rcParams; a colorbar      *)
(* built without a cmap looks the default name up in the registry.          *)
(***************************************************************************)

\* map_name = "chromosome %d" % (i+1), for the 1-based chromosome c = i + 1
MapName(c) ==
    CASE c = 1 -> "chromosome 1"
      [] c = 2 -> "chromosome 2"
      [] c = 3 -> "chromosome 3"
      [] c = 4 -> "chromosome 4"

\* chrom_bounds = np.insert(np.cumsum(chrom_lengths), 0, 0); element c + 1 is
\* chrom_bounds[c]
RECURSIVE Cumsum(_, _)
Cumsum(chrom_lengths, c) ==
    IF c = 0 THEN 0 ELSE Cumsum(chrom_lengths, c - 1) + chrom_lengths[c]

ChromBounds(chrom_lengths) ==
    [k \in 1..(Len(chrom_lengths) + 1) |-> Cumsum(chrom_lengths, k - 1)]

\* np.repeat(colors, chrom_lengths, axis=0)
RECURSIVE Repeat(_, _, _)
Repeat(colors, chrom_lengths, c) ==
    IF c > Len(chrom_lengths) THEN <<>>
    ELSE [k \in 1..chrom_lengths[c] |-> colors[c]]
         \o Repeat(colors, chrom_lengths, c + 1)

\* colors[chrom_bounds[i]:chrom_bounds[i+1], :] for chromosome c = i + 1
ChromColors(colors, chrom_bounds, c) ==
    SubSeq(colors, chrom_bounds[c] + 1, chrom_bounds[c + 1])

\* plt.register_cmap(name, cmap) inside try/except ValueError: a name that is
\* taken keeps the colormap registered first
RegisterCmap(registry, name, cmap) ==
    IF name \in DOMAIN registry THEN registry
    ELSE [nm \in DOMAIN registry \cup {name} |->
            IF nm = name THEN cmap ELSE registry[nm]]

\* the loop over the chromosomes from chromosome c on: the registry and
\* rcParams it leaves and the colours of the colorbars it draws
RECURSIVE DrawLoop(_, _, _, _, _, _)
DrawLoop(c, num_chrom, colors, chrom_bounds, st, drawn) ==
    IF c > num_chrom THEN [registry |-> st.registry, rc |-> st.rc, colorbars |-> drawn]
    ELSE LET map_name == MapName(c)
             chrom_map == ChromColors(colors, chrom_bounds, c)
             registry == RegisterCmap(st.registry, map_name, chrom_map)
             rc == map_name                         \* plt.set_cmap(chrom_map)
             cb == registry[rc]                     \* ColorbarBase(ax, norm=NoNorm())
         IN  DrawLoop(c + 1, num_chrom, colors, chrom_bounds,
                      [registry |-> registry, rc |-> rc], Append(drawn, cb))

\* the call with the colours in use (the argument, or the random colours drawn
\* and repeated over each chromosome)
chromosome_viewer(chrom_lengths, colors, registry, rc) ==
    DrawLoop(1, Len(chrom_lengths), colors, ChromBounds(chrom_lengths),
             [registry |-> registry, rc |-> rc], <<>>)

(***************************************************************************)
(* Calls of chromosome_viewer, one after another in one process            *)
(***************************************************************************)
MaxCalls == 2
MaxChrom == 2

ChromLengths == {1, 2}
RGBA == {<<100, 0, 0, 100>>, <<0, 0, 100, 100>>}

RECURSIVE SeqSum(_)
SeqSum(q) == IF q = <<>> THEN 0 ELSE Head(q) + SeqSum(Tail(q))

InitChromosome ==
    /\ pc = "call"
    /\ fn = "chromosome_viewer"
    /\ args = [chrom_lengths |-> <<>>, colors |-> None]
    /\ locals = NoLocals
    /\ ret = NoRet
    /\ cmap_registry = NoRegistry
    /\ rcParams = "viridis"
    /\ ncalls = 0

\* one call, with a colors array of one row per monomer
ChromosomeViewerColors ==
    /\ fn = "chromosome_viewer"
    /\ ncalls < MaxCalls
    /\ \E num_chrom \in 1..MaxChrom :
       \E chrom_lengths \in [1..num_chrom -> ChromLengths] :
       \E colors \in [1..SeqSum(chrom_lengths) -> RGBA] :
          LET out == chromosome_viewer(chrom_lengths, colors, cmap_registry, rcParams)
          IN  /\ args' = [chrom_lengths |-> chrom_lengths, colors |-> colors]
              /\ locals' = [colors |-> colors,
                            chrom_bounds |-> ChromBounds(chrom_lengths)]
              /\ ret' = Return([dtype |-> "figure", colorbars |-> out.colorbars])
              /\ cmap_registry' = out.registry
              /\ rcParams' = out.rc
    /\ ncalls' = ncalls + 1
    /\ pc' = "done"
    /\ UNCHANGED fn

\* one call with colors=None: a random colour for each chromosome
ChromosomeViewerRandom ==
    /\ fn = "chromosome_viewer"
    /\ ncalls < MaxCalls
    /\ \E num_chrom \in 1..MaxChrom :
       \E chrom_lengths \in [1..num_chrom -> ChromLengths] :
       \E random \in [1..num_chrom -> RGBA] :
          LET colors == Repeat(random, chrom_lengths, 1)
              out == chromosome_viewer(chrom_lengths, colors, cmap_registry, rcParams)
          IN  /\ args' = [chrom_lengths |-> chrom_lengths, colors |-> None]
              /\ locals' = [colors |-> colors,
                            chrom_bounds |-> ChromBounds(chrom_lengths)]
              /\ ret' = Return([dtype |-> "figure", colorbars |-> out.colorbars])
              /\ cmap_registry' = out.registry
              /\ rcParams' = out.rc
    /\ ncalls' = ncalls + 1
    /\ pc' = "done"
    /\ UNCHANGED fn

ChromosomeViewer == ChromosomeViewerColors \/ ChromosomeViewerRandom

SpecChromosome == InitChromosome /\ [][ChromosomeViewer]_vars

(***************************************************************************)
(* Claims about chromosome_viewer                                          *)
(***************************************************************************)
\* C8: whatever calls came before, the colorbar of chromosome i shows the
\* colours colors[chrom_bounds[i]:chrom_bounds[i+1]] of this call's colors
\* (given or freshly drawn), never those of a colormap registered earlier.
C8_ColorbarShowsThisCallsColors ==
    (pc = "done" /\ fn = "chromosome_viewer") =>
        /\ Len(ret.value.colorbars) = Len(args.chrom_lengths)
        /\ \A c \in 1..Len(args.chrom_lengths) :
              ret.value.colorbars[c] = ChromColors(locals.colors, locals.chrom_bounds, c)

(***************************************************************************)
(* The program: any of the functions may be called                         *)
(***************************************************************************)
Init == InitRasterize \/ InitPixels \/ InitFresnel \/ InitChromosome

Next == Rasterize \/ VoxelsToPixels \/ Fresnel \/ ChromosomeViewer

Spec == Init /\ [][Next]_vars

====
